---------------------------- MODULE Spec2Model ----------------------------
(***************************************************************************)
(* Model of the thermal texture-atlas worker (src/thermal-worker.js) and   *)
(* of the pure rendering functions it inlines (src/unnamed/part_000).      *)
(*                                                                         *)
(* Spec        the worker: its message loop, the process-wide cancelled    *)
(*             flag and the atlas jobs (renderAtlas), one step per task.   *)
(* FairSpec    the worker under the fairness of its event loop.            *)
(* GeomSpec    the atlas geometry and tile placement of renderAtlas.       *)
(* BlurSpec    one 1-D pass of boxBlur, one step per loop iteration.       *)
(* RenderSpec  renderPixelData on small frames.                            *)
(***************************************************************************)
EXTENDS Integers, Sequences, FiniteSets, TLC

VARIABLES
    \* ---- worker (src/thermal-worker.js:242-300) ----
    cancelled,   \* the module-level flag `let cancelled`
    inbox,       \* requests posted by the initiator, not yet dispatched
    pc,          \* per job: where renderAtlas stands
    day,         \* per job: the loop variable `day`
    numDays,     \* per job: the numDays argument
    gridLen,     \* per job: allTemps.length
    slices,      \* per job: length of each dayTemps slice rendered so far
    sent,        \* per job: the messages it posted to the initiator
    cancelSeen,  \* history: per job, where it stood when a cancel was first handled
    reqAfter,    \* history: per job, a request was handled after that cancel
    posts,       \* history: number of requests posted so far
    \* ---- atlas geometry (renderAtlas:255-276) ----
    gDays, gDay, gTiles,
    \* ---- boxBlur, one 1-D pass over one line (part_000:171-185, 190-203) ----
    bIn,         \* w, h, radius and the line: axis, line (y or x), ch
    bSrc,        \* the buffer the pass reads (data, or dst for a column)
    bDst,        \* the buffer the pass writes
    bPc,         \* "prime": before the window is primed; "slide"; "done"
    bX,          \* the inner loop variable
    bSum,        \* `sum`
    bCount,      \* `count`
    \* ---- renderPixelData (part_000:223-273) ----
    rIn,         \* temps, opts, w, h
    rPc,         \* "call", "raster", "blurH", "blurV", "blurred", "returned"
    rData,       \* `data`
    rDst,        \* boxBlur's scratch buffer `dst`
    rMask,       \* `oceanMask`
    rPass,       \* boxBlur's loop variable `pass`
    rBlurred     \* `data` as boxBlur left it, before the re-stamp

workerVars == <<cancelled, inbox, pc, day, numDays, gridLen, slices,
                sent, cancelSeen, reqAfter, posts>>
geomVars   == <<gDays, gDay, gTiles>>
blurVars   == <<bIn, bSrc, bDst, bPc, bX, bSum, bCount>>
renderVars == <<rIn, rPc, rData, rDst, rMask, rPass, rBlurred>>
pureVars   == <<geomVars, blurVars, renderVars>>
vars       == <<workerVars, pureVars>>

\* ------------------------------------------------------------------ bounds
MaxJobs  == 2      \* start requests the initiator posts
MaxPosts == 3      \* requests (start or cancel) the initiator posts
MaxDays  == 7      \* days requested, summed over all start requests
MaxAtlasDays == 40 \* largest numDays whose atlas geometry is laid out
MaxBlurW == 3      \* largest width of a buffer handed to one blur pass
MaxBlurH == 2      \* largest height of a buffer handed to one blur pass
MaxRadius == 3     \* largest blur radius of one blur pass
MaxRenderW == 2    \* largest frame width handed to renderPixelData
MaxRenderH == 4    \* largest frame height handed to renderPixelData

\* ------------------------------------------------------ program constants
GRID_STEP == 2
LAT_MIN == -90
LNG_MIN == -180
NUM_LAT == ((90 - LAT_MIN) \div GRID_STEP) + 1
NUM_LNG == ((180 - LNG_MIN) \div GRID_STEP) + 1
NUM_POINTS == NUM_LAT * NUM_LNG
FRAME_W == 512
FRAME_H == 256
ATLAS_COLS == 16

\* --------------------------------------------------------------- helpers
Min(a, b) == IF a <= b THEN a ELSE b
Max(a, b) == IF a >= b THEN a ELSE b

\* Math.ceil(a / b) for a >= 0, b > 0
CeilDiv(a, b) == (a + b - 1) \div b

\* Math.pow(2, Math.ceil(Math.log2(n))): the least power of two >= n for
\* n >= 1; Math.log2(0) is -Infinity and Math.pow(2, -Infinity) is 0.
RECURSIVE PowCeilLog2From(_, _)
PowCeilLog2From(p, n) == IF p >= n THEN p ELSE PowCeilLog2From(2 * p, n)
PowCeilLog2(n) == IF n = 0 THEN 0 ELSE PowCeilLog2From(1, n)

\* ------------------------------------------------- renderAtlas: geometry
\* mutant: Math.floor in place of Math.ceil
AtlasRowsFloor(n) == n \div ATLAS_COLS

AtlasRows(n) == CeilDiv(n, ATLAS_COLS)
AtlasW == ATLAS_COLS * FRAME_W
RawH(n) == AtlasRows(n) * FRAME_H
AtlasH(n) == PowCeilLog2(RawH(n))
TileCol(d) == d % ATLAS_COLS
TileRow(d) == d \div ATLAS_COLS
\* the rectangle putImageData(imgData, col * FRAME_W, row * FRAME_H) writes
TileRect(d) == [x0 |-> TileCol(d) * FRAME_W, y0 |-> TileRow(d) * FRAME_H,
                x1 |-> TileCol(d) * FRAME_W + FRAME_W,
                y1 |-> TileRow(d) * FRAME_H + FRAME_H]

\* allTemps.subarray(day * NUM_POINTS, (day + 1) * NUM_POINTS): both ends are
\* clamped to the array, so the slice is shorter than NUM_POINTS (or empty)
\* when the grid is too short.
SubarrayLen(len, begin, end) ==
    LET b == Min(begin, len)
        e == Min(end, len)
    IN  Max(e - b, 0)
DayTempsLen(len, d) == SubarrayLen(len, d * NUM_POINTS, (d + 1) * NUM_POINTS)

\* ------------------------------------------------------------- boxBlur
\* A buffer (Uint8ClampedArray) is a sequence; the code's index i is i + 1.
At(a, i) == a[i + 1]
Put(a, i, v) == [a EXCEPT ![i + 1] = v]

\* (sum / count + 0.5) | 0: for count > 0 the average rounded half up (the
\* quotient is exact enough in a double: it lies at least 1/(2 count) from
\* the next half unless it is one); 0/0 is NaN and NaN | 0 is 0
BlurOut(sum, count) ==
    IF count = 0 THEN 0 ELSE (2 * sum + count) \div (2 * count)

\* The index a 1-D pass uses for position p of its line: rowOff + p * 4 + ch
\* in the horizontal pass (line = y), (p * w + line) * 4 + ch in the vertical
\* pass (line = x)
LineIdx(axis, w, line, ch, p) ==
    IF axis = "row" THEN line * w * 4 + p * 4 + ch
    ELSE (p * w + line) * 4 + ch

\* `for (x = 0; x <= radius && x < n; x++) { sum += src[..]; count++; }`
RECURSIVE PrimeFrom(_, _, _, _, _, _, _, _)
PrimeFrom(src, axis, w, line, ch, n, radius, x) ==
    IF x <= radius /\ x < n
    THEN LET r == PrimeFrom(src, axis, w, line, ch, n, radius, x + 1)
         IN  [sum |-> At(src, LineIdx(axis, w, line, ch, x)) + r.sum,
              count |-> 1 + r.count]
    ELSE [sum |-> 0, count |-> 0]
Prime(src, axis, w, line, ch, n, radius) ==
    PrimeFrom(src, axis, w, line, ch, n, radius, 0)

\* mutant: the value leaving the window is dropped only for ox > 0
SlideLateDrop(src, axis, w, line, ch, n, radius, x, sum, count) ==
    LET nx == x + radius + 1
        ox == x - radius
        s1 == IF nx < n THEN sum + At(src, LineIdx(axis, w, line, ch, nx)) ELSE sum
        c1 == IF nx < n THEN count + 1 ELSE count
    IN  [sum |-> IF ox > 0 THEN s1 - At(src, LineIdx(axis, w, line, ch, ox)) ELSE s1,
         count |-> IF ox > 0 THEN c1 - 1 ELSE c1]

\* The window's move after position x is written:
\*   nx = x + radius + 1; if (nx < n) { sum += src[nx]; count++; }
\*   ox = x - radius;     if (ox >= 0) { sum -= src[ox]; count--; }
Slide(src, axis, w, line, ch, n, radius, x, sum, count) ==
    LET nx == x + radius + 1
        ox == x - radius
        s1 == IF nx < n THEN sum + At(src, LineIdx(axis, w, line, ch, nx)) ELSE sum
        c1 == IF nx < n THEN count + 1 ELSE count
    IN  [sum |-> IF ox >= 0 THEN s1 - At(src, LineIdx(axis, w, line, ch, ox)) ELSE s1,
         count |-> IF ox >= 0 THEN c1 - 1 ELSE c1]

\* One line of one pass, from position x on with the running sum and count:
\* dst as it is when the inner loop ends. The horizontal pass also sets the
\* pixel's alpha to 255.
RECURSIVE BlurLineFrom(_, _, _, _, _, _, _, _, _, _, _)
BlurLineFrom(src, dst, axis, w, line, ch, n, radius, x, sum, count) ==
    IF x < n
    THEN LET d1 == Put(dst, LineIdx(axis, w, line, ch, x), BlurOut(sum, count))
             d2 == IF axis = "row" THEN Put(d1, LineIdx(axis, w, line, 3, x), 255)
                   ELSE d1
             a == Slide(src, axis, w, line, ch, n, radius, x, sum, count)
         IN  BlurLineFrom(src, d2, axis, w, line, ch, n, radius, x + 1, a.sum, a.count)
    ELSE dst
BlurLine(src, dst, axis, w, line, ch, n, radius) ==
    LET a == Prime(src, axis, w, line, ch, n, radius)
    IN  BlurLineFrom(src, dst, axis, w, line, ch, n, radius, 0, a.sum, a.count)

\* the loops over the lines and the three colour channels of one pass:
\* lines 169-186 (axis "row": lines = h, n = w) and 189-204 (axis "col":
\* lines = w, n = h)
RECURSIVE BlurLinesFrom(_, _, _, _, _, _, _, _, _)
BlurLinesFrom(src, dst, axis, w, lines, n, radius, line, ch) ==
    IF line >= lines THEN dst
    ELSE IF ch >= 3 THEN BlurLinesFrom(src, dst, axis, w, lines, n, radius, line + 1, 0)
    ELSE BlurLinesFrom(src, BlurLine(src, dst, axis, w, line, ch, n, radius),
                       axis, w, lines, n, radius, line, ch + 1)
HorizontalPass(data, dst, w, h, radius) ==
    BlurLinesFrom(data, dst, "row", w, h, w, radius, 0, 0)
VerticalPass(dst, data, w, h, radius) ==
    BlurLinesFrom(dst, data, "col", w, w, h, radius, 0, 0)

\* ---------------------------------------- one 1-D pass, step by step
\* (BlurSpec). The line under the pass holds any values of BlurVals; the
\* rest of the buffer holds BlurFiller, which is none of them.
BlurVals == {0, 1, 255}
BlurFiller == 100
BlurN(in) == IF in.axis = "row" THEN in.w ELSE in.h
BlurInputs ==
    {in \in [w : 1 .. MaxBlurW, h : 1 .. MaxBlurH, radius : 0 .. MaxRadius,
             axis : {"row", "col"}, line : 0 .. Max(MaxBlurW, MaxBlurH) - 1,
             ch : 0 .. 2] :
        in.line < (IF in.axis = "row" THEN in.h ELSE in.w)}
BlurBuffers(in) ==
    {[i \in 1 .. in.w * in.h * 4 |->
         IF \E p \in 0 .. BlurN(in) - 1 :
                i = LineIdx(in.axis, in.w, in.line, in.ch, p) + 1
         THEN v[CHOOSE p \in 0 .. BlurN(in) - 1 :
                  i = LineIdx(in.axis, in.w, in.line, in.ch, p) + 1]
         ELSE BlurFiller] : v \in [0 .. BlurN(in) - 1 -> BlurVals]}

BlurInit ==
    /\ bIn \in BlurInputs
    /\ bSrc \in BlurBuffers(bIn)
    /\ bDst = [i \in 1 .. bIn.w * bIn.h * 4 |-> 0]
    /\ bPc = "prime"
    /\ bX = 0
    /\ bSum = 0
    /\ bCount = 0

\* `let sum = 0, count = 0;` and the priming loop
BlurPrime ==
    /\ bPc = "prime"
    /\ LET a == Prime(bSrc, bIn.axis, bIn.w, bIn.line, bIn.ch, BlurN(bIn), bIn.radius)
       IN  bSum' = a.sum /\ bCount' = a.count
    /\ bPc' = "slide"
    /\ UNCHANGED <<bIn, bSrc, bDst, bX>>
    /\ UNCHANGED <<workerVars, geomVars, renderVars>>

\* one iteration of the inner loop: write position bX, move the window
BlurStep ==
    /\ bPc = "slide"
    /\ bX < BlurN(bIn)
    /\ LET d1 == Put(bDst, LineIdx(bIn.axis, bIn.w, bIn.line, bIn.ch, bX),
                     BlurOut(bSum, bCount))
           a == Slide(bSrc, bIn.axis, bIn.w, bIn.line, bIn.ch, BlurN(bIn),
                      bIn.radius, bX, bSum, bCount)
       IN  /\ bDst' = IF bIn.axis = "row"
                      THEN Put(d1, LineIdx(bIn.axis, bIn.w, bIn.line, 3, bX), 255)
                      ELSE d1
           /\ bSum' = a.sum
           /\ bCount' = a.count
    /\ bX' = bX + 1
    /\ UNCHANGED <<bIn, bSrc, bPc>>
    /\ UNCHANGED <<workerVars, geomVars, renderVars>>

\* the inner loop's exit
BlurEnd ==
    /\ bPc = "slide"
    /\ bX >= BlurN(bIn)
    /\ bPc' = "done"
    /\ UNCHANGED <<bIn, bSrc, bDst, bX, bSum, bCount>>
    /\ UNCHANGED <<workerVars, geomVars, renderVars>>

BlurNext == BlurPrime \/ BlurStep \/ BlurEnd

\* ------------------------------------------------------ renderPixelData
\* Coordinates and temperatures are exact rationals <<n, d>>, d > 0, where
\* the code has doubles; a missing value (NaN, or the null tempToRGB is handed
\* for it) is <<0, 0>>.
NaN == <<0, 0>>
RECURSIVE GCD(_, _)
GCD(a, b) == IF b = 0 THEN a ELSE GCD(b, a % b)
Abs(a) == IF a < 0 THEN -a ELSE a
Rat(n, d) == LET g == GCD(Abs(n), d) IN <<n \div g, d \div g>>
Floor(q) == q[1] \div q[2]
\* Math.round: to the nearest integer, halves towards +Infinity
Round(q) == (2 * q[1] + q[2]) \div (2 * q[2])

\* the stop tables, thresholds in tenths of a degree (15.5 is 155)
THERMAL_STOPS ==
    << [t |-> -300, c |-> <<20, 40, 150>>],   [t |-> 50, c |-> <<60, 130, 255>>],
       [t |-> 100, c |-> <<255, 255, 255>>],  [t |-> 155, c |-> <<255, 255, 255>>],
       [t |-> 180, c |-> <<255, 235, 50>>],   [t |-> 250, c |-> <<255, 220, 40>>],
       [t |-> 267, c |-> <<255, 160, 20>>],   [t |-> 320, c |-> <<255, 40, 20>>],
       [t |-> 500, c |-> <<150, 0, 0>>] >>
CLASSIC_STOPS ==
    << [t |-> -200, c |-> <<30, 100, 240>>],  [t |-> -50, c |-> <<50, 160, 200>>],
       [t |-> 100, c |-> <<60, 200, 90>>],    [t |-> 250, c |-> <<235, 220, 55>>],
       [t |-> 400, c |-> <<210, 50, 30>>] >>
EARTH_STOPS ==
    << [t |-> -300, c |-> <<15, 25, 110>>],   [t |-> 50, c |-> <<55, 110, 225>>],
       [t |-> 100, c |-> <<200, 190, 85>>],   [t |-> 160, c |-> <<220, 190, 55>>],
       [t |-> 180, c |-> <<225, 175, 40>>],   [t |-> 250, c |-> <<220, 145, 30>>],
       [t |-> 270, c |-> <<215, 110, 20>>],   [t |-> 320, c |-> <<200, 40, 15>>],
       [t |-> 500, c |-> <<120, 0, 0>>] >>
VIVID_STOPS ==
    << [t |-> 40, c |-> <<30, 100, 240>>],    [t |-> 100, c |-> <<80, 180, 255>>],
       [t |-> 180, c |-> <<255, 235, 0>>],    [t |-> 240, c |-> <<255, 130, 0>>],
       [t |-> 320, c |-> <<240, 10, 0>>] >>
COLORWAY_MAP == [thermal |-> THERMAL_STOPS, classic |-> CLASSIC_STOPS,
                 earth |-> EARTH_STOPS, vivid |-> VIVID_STOPS]

\* Math.round(a + (b - a) * p) for the fraction p = pn / pd
Lerp(a, b, pn, pd) == Round(<<a * pd + (b - a) * pn, pd>>)

RECURSIVE BracketFrom(_, _, _)
BracketFrom(t, stops, i) ==
    IF i > Len(stops) - 1 THEN <<255, 255, 255>>
    ELSE LET a == stops[i]
             b == stops[i + 1]
         IN  IF 10 * t[1] >= a.t * t[2] /\ 10 * t[1] <= b.t * t[2]
             THEN LET pn == 10 * t[1] - a.t * t[2]
                      pd == (b.t - a.t) * t[2]
                  IN  <<Lerp(a.c[1], b.c[1], pn, pd), Lerp(a.c[2], b.c[2], pn, pd),
                        Lerp(a.c[3], b.c[3], pn, pd)>>
             ELSE BracketFrom(t, stops, i + 1)

tempToRGB(t, stops) ==
    IF t = NaN THEN <<255, 255, 255>>
    ELSE IF 10 * t[1] <= stops[1].t * t[2] THEN stops[1].c
    ELSE IF 10 * t[1] >= stops[Len(stops)].t * t[2] THEN stops[Len(stops)].c
    ELSE BracketFrom(t, stops, 1)

\* temps[i] of a grid g. The grids rendered are full grids of NUM_POINTS
\* cells given by the set of their missing cells and two temperatures, held
\* by the land cells of even and of odd index.
TempsAt(g, i) ==
    IF i \in g.ocean THEN NaN ELSE <<g.land[(i % 2) + 1], 1>>

\* numerators of the four weights for t = n / d, over the denominator 2 d^3
catmullRomWeights(n, d) ==
    [num |-> << -(n * n * n) + 2 * n * n * d - n * d * d,
                3 * n * n * n - 5 * n * n * d + 2 * d * d * d,
                -3 * n * n * n + 4 * n * n * d + n * d * d,
                n * n * n - n * n * d >>,
     den |-> 2 * d * d * d]

getGridTemp(temps, latIdx, lngIdx) ==
    LET la == Max(0, Min(NUM_LAT - 1, latIdx))
        lo == IF lngIdx < 0 THEN lngIdx + NUM_LNG
              ELSE IF lngIdx >= NUM_LNG THEN lngIdx - NUM_LNG ELSE lngIdx
    IN  TempsAt(temps, la * NUM_LNG + lo)

RECURSIVE SumSeq(_)
SumSeq(q) == IF q = <<>> THEN 0 ELSE Head(q) + SumSeq(Tail(q))

\* The grid temperatures here are integers, so validSum is one; the result
\* is the exact value of the double computation.
bicubicSample(temps, lat, lng) ==
    LET gLat == Rat(90 * lat[2] - lat[1], lat[2] * GRID_STEP)
        gLng == Rat(lng[1] - LNG_MIN * lng[2], lng[2] * GRID_STEP)
        latBase == Floor(gLat)
        lngBase == Floor(gLng)
        tLat == <<gLat[1] - latBase * gLat[2], gLat[2]>>
        tLng == <<gLng[1] - lngBase * gLng[2], gLng[2]>>
        raw == [i \in 0 .. 15 |->
                  getGridTemp(temps, latBase + (i \div 4) - 1, lngBase + (i % 4) - 1)]
        valid == {i \in 0 .. 15 : raw[i] # NaN}
        validCount == Cardinality(valid)
        validSum == SumSeq([k \in 1 .. 16 |->
                              IF raw[k - 1] = NaN THEN 0 ELSE raw[k - 1][1]])
        \* each sample times validCount: a missing one is the fallback mean
        filled == [i \in 0 .. 15 |->
                     IF raw[i] = NaN THEN validSum ELSE raw[i][1] * validCount]
        wLat == catmullRomWeights(tLat[1], tLat[2])
        wLng == catmullRomWeights(tLng[1], tLng[2])
        rowVal == [row \in 0 .. 3 |->
                     SumSeq([col \in 1 .. 4 |-> wLng.num[col] * filled[row * 4 + col - 1]])]
        result == SumSeq([row \in 1 .. 4 |-> wLat.num[row] * rowVal[row - 1]])
    IN  IF validCount = 0 THEN NaN
        ELSE Rat(result, wLat.den * wLng.den * validCount)

isOceanNearest(temps, lat, lng) ==
    LET latIdx == Round(<<90 * lat[2] - lat[1], lat[2] * GRID_STEP>>)
        lngIdx0 == Round(<<lng[1] - LNG_MIN * lng[2], lng[2] * GRID_STEP>>)
        lngIdx == IF lngIdx0 < 0 THEN lngIdx0 + NUM_LNG
                  ELSE IF lngIdx0 >= NUM_LNG THEN lngIdx0 - NUM_LNG ELSE lngIdx0
        clampedLat == Max(0, Min(NUM_LAT - 1, latIdx))
    IN  TempsAt(temps, clampedLat * NUM_LNG + lngIdx) = NaN

\* lat = 90 - (y / h) * 180 and lng = (x / w) * 360 - 180
PixelLat(y, h) == Rat(90 * h - 180 * y, h)
PixelLng(x, w) == Rat(360 * x - 180 * w, w)

\* opts.customStops || COLORWAY_MAP[opts.colorway]; <<>> is no customStops
Stops(opts) == IF opts.customStops # <<>> THEN opts.customStops
               ELSE COLORWAY_MAP[opts.colorway]

\* the four bytes the first loop writes for pixel (x, y): lines 236-252
PixelRGBA(temps, opts, w, h, x, y) ==
    LET lat == PixelLat(y, h)
        lng == PixelLng(x, w)
    IN  IF isOceanNearest(temps, lat, lng) THEN <<255, 255, 255, 255>>
        ELSE LET temp == bicubicSample(temps, lat, lng)
                 rgb == tempToRGB(temp, Stops(opts))
             IN  <<rgb[1], rgb[2], rgb[3], 255>>

\* `data` after the first loop
Raster(temps, opts, w, h) ==
    [i \in 1 .. w * h * 4 |->
        LET px == (i - 1) \div 4
        IN  PixelRGBA(temps, opts, w, h, px % w, px \div w)[((i - 1) % 4) + 1]]

\* `oceanMask` after the first loop
OceanMask(temps, w, h) ==
    [i \in 1 .. w * h |->
        IF isOceanNearest(temps, PixelLat((i - 1) \div w, h), PixelLng((i - 1) % w, w))
        THEN 1 ELSE 0]

\* Math.max(1, Math.round(opts.blurRadius * w / refSize))
ScaledRadius(blurRadius, w) == Max(1, Round(<<blurRadius * w, 2048>>))

\* mutant: the re-stamp is left out
NoRestamp(data, mask) == data

\* the re-stamp loop, lines 262-269: the three colour bytes of every masked
\* pixel are set to 255
Restamp(data, mask) ==
    [i \in 1 .. Len(data) |->
        IF mask[((i - 1) \div 4) + 1] = 1 /\ (i - 1) % 4 < 3 THEN 255 ELSE data[i]]

\* -------------------------------------- renderPixelData, step by step
\* (RenderSpec)
REF_SIZE == 2048
BLUR_PASSES == 3

\* the grid cell nearest to pixel (x, y) of a w x h frame
PixelCell(x, y, w, h) ==
    LET la == Max(0, Min(NUM_LAT - 1, Round(<<180 * y, h * GRID_STEP>>)))
        lo0 == Round(<<360 * x, w * GRID_STEP>>)
        lo == IF lo0 >= NUM_LNG THEN lo0 - NUM_LNG ELSE lo0
    IN  la * NUM_LNG + lo
PixelCells(w, h) == {PixelCell(x, y, w, h) : x \in 0 .. w - 1, y \in 0 .. h - 1}

\* The grids rendered: no cell missing, every pixel's cell missing, one
\* pixel's cell missing, all but one pixel's cell missing; with `coast` the
\* cell east of every pixel's cell is missing too (a missing neighbour in
\* the 4x4 neighbourhood of a land pixel).
OceanSets(w, h) ==
    LET all == PixelCells(w, h)
    IN  {{}, all} \cup {{c} : c \in all} \cup {all \ {c} : c \in all}
RenderGrids(w, h) ==
    {[ocean |-> o \cup (IF coast THEN {c + 1 : c \in PixelCells(w, h)} ELSE {}),
      land |-> l] :
        o \in OceanSets(w, h), coast \in BOOLEAN, l \in {<<20, 20>>, <<-12, 31>>}}
RenderOpts ==
    {[customStops |-> cs, colorway |-> "thermal", blurRadius |-> b] :
        cs \in {<<>>, <<[t |-> 0, c |-> <<0, 0, 0>>], [t |-> 300, c |-> <<200, 100, 50>>]>>},
        b \in {0, 1, REF_SIZE}}

RenderInit ==
    /\ \E w \in 1 .. MaxRenderW, h \in 1 .. MaxRenderH :
          \E g \in RenderGrids(w, h), o \in RenderOpts :
              rIn = [temps |-> g, opts |-> o, w |-> w, h |-> h]
    /\ rPc = "call"
    /\ rData = <<>>
    /\ rDst = <<>>
    /\ rMask = <<>>
    /\ rPass = 0
    /\ rBlurred = <<>>

\* the pixel loop, lines 227-254
Rasterize ==
    /\ rPc = "call"
    /\ rData' = Raster(rIn.temps, rIn.opts, rIn.w, rIn.h)
    /\ rMask' = OceanMask(rIn.temps, rIn.w, rIn.h)
    /\ rPc' = "raster"
    /\ UNCHANGED <<rIn, rDst, rPass, rBlurred>>
    /\ UNCHANGED <<workerVars, geomVars, blurVars>>

\* `if (opts.blurRadius > 0)` not taken: return data
ReturnUnblurred ==
    /\ rPc = "raster"
    /\ ~(rIn.opts.blurRadius > 0)
    /\ rPc' = "returned"
    /\ UNCHANGED <<rIn, rData, rDst, rMask, rPass, rBlurred>>
    /\ UNCHANGED <<workerVars, geomVars, blurVars>>

\* boxBlur is entered: `dst = new Uint8ClampedArray(data.length)`
BlurBegin ==
    /\ rPc = "raster"
    /\ rIn.opts.blurRadius > 0
    /\ rDst' = [i \in 1 .. Len(rData) |-> 0]
    /\ rPass' = 0
    /\ rPc' = "blurH"
    /\ UNCHANGED <<rIn, rData, rMask, rBlurred>>
    /\ UNCHANGED <<workerVars, geomVars, blurVars>>

\* horizontal pass: data -> dst
BlurHorizontal ==
    /\ rPc = "blurH"
    /\ rDst' = HorizontalPass(rData, rDst, rIn.w, rIn.h,
                              ScaledRadius(rIn.opts.blurRadius, rIn.w))
    /\ rPc' = "blurV"
    /\ UNCHANGED <<rIn, rData, rMask, rPass, rBlurred>>
    /\ UNCHANGED <<workerVars, geomVars, blurVars>>

\* vertical pass: dst -> data; pass++ and the test of the pass loop
BlurVertical ==
    /\ rPc = "blurV"
    /\ LET d == VerticalPass(rDst, rData, rIn.w, rIn.h,
                             ScaledRadius(rIn.opts.blurRadius, rIn.w))
       IN  /\ rData' = d
           /\ rBlurred' = IF rPass + 1 < BLUR_PASSES THEN rBlurred ELSE d
    /\ rPass' = rPass + 1
    /\ rPc' = IF rPass + 1 < BLUR_PASSES THEN "blurH" ELSE "blurred"
    /\ UNCHANGED <<rIn, rDst, rMask>>
    /\ UNCHANGED <<workerVars, geomVars, blurVars>>

\* the re-stamp loop and `return data`
RestampReturn ==
    /\ rPc = "blurred"
    /\ rData' = Restamp(rData, rMask)
    /\ rPc' = "returned"
    /\ UNCHANGED <<rIn, rDst, rMask, rPass, rBlurred>>
    /\ UNCHANGED <<workerVars, geomVars, blurVars>>

RenderNext ==
    \/ Rasterize
    \/ ReturnUnblurred
    \/ BlurBegin
    \/ BlurHorizontal
    \/ BlurVertical
    \/ RestampReturn

\* ---------------------------------------------------------------- worker
Jobs == 1 .. MaxJobs
Live == {"yield", "convertToBlob", "arrayBuffer"}
Ended == {"cancelled", "completed", "rejected"}
NoCancel == [at |-> "none", done |-> 0]

\* the grids a start request for n days may carry: the exact length, or one
\* value short
GridLens(n) == {n * NUM_POINTS} \cup (IF n > 0 THEN {n * NUM_POINTS - 1} ELSE {})

StartMsg(n, g) == [type |-> "start", numDays |-> n, gridLen |-> g]
CancelMsg == [type |-> "cancel"]
\* mutant: `done: day` in place of `done: day + 1`
ProgressMsgOffByOne(d, n) == [type |-> "progress", done |-> d - 1, total |-> n]

ProgressMsg(d, n) == [type |-> "progress", done |-> d, total |-> n]
AtlasMsg(n) == [type |-> "atlas", numDays |-> n, cols |-> ATLAS_COLS,
                rows |-> AtlasRows(n), frameW |-> FRAME_W, frameH |-> FRAME_H]

Started == {j \in Jobs : pc[j] # "idle"}
StartsPosted == Cardinality(Started)
                  + Cardinality({i \in 1 .. Len(inbox) : inbox[i].type = "start"})
RECURSIVE SumDays(_)
SumDays(q) == IF q = <<>> THEN 0
              ELSE (IF Head(q).type = "start" THEN Head(q).numDays ELSE 0)
                     + SumDays(Tail(q))
RECURSIVE SumOver(_, _)
SumOver(f, S) == IF S = {} THEN 0
                 ELSE LET x == CHOOSE y \in S : TRUE IN f[x] + SumOver(f, S \ {x})
DaysPosted == SumOver(numDays, Jobs) + SumDays(inbox)
NumProgress(j) == Cardinality({i \in 1 .. Len(sent[j]) : sent[j][i].type = "progress"})
HasResult(j) == \E i \in 1 .. Len(sent[j]) : sent[j][i].type = "atlas"

\* mutant: a yield after every second day
YieldsAfterEven(d) == d % 2 = 0

\* the condition of `if (day % 5 === 0) await ...` (line 280)
YieldsAfter(d) == d % 5 = 0

\* mutant: the loop never tests the flag
LoopNeverCancelled(c) == FALSE

\* `if (cancelled) return;` at the top of the loop body (line 268), c the flag
LoopCancelled(c) == c

\* `if (cancelled) return;` after the loop (line 283), c the flag
FinalCancelled(c) == c

\* The for loop of renderAtlas (lines 267-283) run from `day = d` until the
\* job suspends or returns, as one task of the event loop: n is numDays, g
\* the grid's length, c the cancelled flag (no handler runs meanwhile, so it
\* is constant). Yields where the job stops, the loop variable, and the
\* progress messages and day slices of the days rendered on the way.
RECURSIVE LoopFrom(_, _, _, _)
LoopFrom(d, n, g, c) ==
    IF d < n
    THEN IF LoopCancelled(c)
         THEN [pc |-> "cancelled", day |-> d, msgs |-> <<>>, slices |-> <<>>]
         ELSE IF YieldsAfter(d)
              THEN [pc |-> "yield", day |-> d,
                    msgs |-> <<ProgressMsg(d + 1, n)>>,
                    slices |-> <<DayTempsLen(g, d)>>]
              ELSE LET r == LoopFrom(d + 1, n, g, c)
                   IN  [r EXCEPT !.msgs = <<ProgressMsg(d + 1, n)>> \o @,
                                 !.slices = <<DayTempsLen(g, d)>> \o @]
    ELSE IF FinalCancelled(c)
         THEN [pc |-> "cancelled", day |-> d, msgs |-> <<>>, slices |-> <<>>]
         ELSE [pc |-> "convertToBlob", day |-> d, msgs |-> <<>>, slices |-> <<>>]

WorkerInit ==
    /\ cancelled = FALSE
    /\ inbox = <<>>
    /\ pc = [j \in Jobs |-> "idle"]
    /\ day = [j \in Jobs |-> 0]
    /\ numDays = [j \in Jobs |-> 0]
    /\ gridLen = [j \in Jobs |-> 0]
    /\ slices = [j \in Jobs |-> <<>>]
    /\ sent = [j \in Jobs |-> <<>>]
    /\ cancelSeen = [j \in Jobs |-> NoCancel]
    /\ reqAfter = [j \in Jobs |-> FALSE]
    /\ posts = 0

\* history kept when the worker dispatches a request: a job that already saw
\* a cancel has now seen a later request
NoteRequest == [j \in Jobs |-> reqAfter[j] \/ cancelSeen[j] # NoCancel]

\* The initiator posts a start request (worker.postMessage), within the
\* bounds given.
PostStart(maxPosts, maxJobs) ==
    /\ posts < maxPosts
    /\ StartsPosted < maxJobs
    /\ \E n \in 0 .. MaxDays - DaysPosted : \E g \in GridLens(n) :
          inbox' = Append(inbox, StartMsg(n, g))
    /\ posts' = posts + 1
    /\ UNCHANGED <<cancelled, pc, day, numDays, gridLen, slices, sent,
                   cancelSeen, reqAfter>>
    /\ UNCHANGED pureVars

\* The initiator posts a cancel request.
PostCancel(maxPosts) ==
    /\ posts < maxPosts
    /\ inbox' = Append(inbox, CancelMsg)
    /\ posts' = posts + 1
    /\ UNCHANGED <<cancelled, pc, day, numDays, gridLen, slices, sent,
                   cancelSeen, reqAfter>>
    /\ UNCHANGED pureVars

\* self.onmessage, msg.type === "start" (lines 246-248): reset the flag and
\* run renderAtlas up to its first await, all in the handler's task.
HandleStart ==
    /\ inbox # <<>>
    /\ Head(inbox).type = "start"
    /\ LET j == Cardinality(Started) + 1
           m == Head(inbox)
           r == LoopFrom(0, m.numDays, m.gridLen, FALSE)
       IN  /\ j \in Jobs
           /\ cancelled' = FALSE
           /\ numDays' = [numDays EXCEPT ![j] = m.numDays]
           /\ gridLen' = [gridLen EXCEPT ![j] = m.gridLen]
           /\ pc' = [pc EXCEPT ![j] = r.pc]
           /\ day' = [day EXCEPT ![j] = r.day]
           /\ sent' = [sent EXCEPT ![j] = r.msgs]
           /\ slices' = [slices EXCEPT ![j] = r.slices]
    /\ inbox' = Tail(inbox)
    /\ reqAfter' = NoteRequest
    /\ UNCHANGED <<cancelSeen, posts>>
    /\ UNCHANGED pureVars

\* self.onmessage, msg.type === "cancel" (lines 249-250)
HandleCancel ==
    /\ inbox # <<>>
    /\ Head(inbox).type = "cancel"
    /\ cancelled' = TRUE
    /\ inbox' = Tail(inbox)
    /\ cancelSeen' = [j \in Jobs |->
                        IF pc[j] \in Live /\ cancelSeen[j] = NoCancel
                        THEN [at |-> pc[j], done |-> NumProgress(j)]
                        ELSE cancelSeen[j]]
    /\ reqAfter' = NoteRequest
    /\ UNCHANGED <<pc, day, numDays, gridLen, slices, sent, posts>>
    /\ UNCHANGED pureVars

\* The zero timeout of line 280 fires: the loop's day++, then the loop goes
\* on to the job's next await or return. Which of several suspended jobs'
\* timers fires first is left open (nested timeouts are clamped).
TimerFires(j) ==
    /\ pc[j] = "yield"
    /\ LET r == LoopFrom(day[j] + 1, numDays[j], gridLen[j], cancelled)
       IN  /\ pc' = [pc EXCEPT ![j] = r.pc]
           /\ day' = [day EXCEPT ![j] = r.day]
           /\ sent' = [sent EXCEPT ![j] = @ \o r.msgs]
           /\ slices' = [slices EXCEPT ![j] = @ \o r.slices]
    /\ UNCHANGED <<cancelled, inbox, numDays, gridLen, cancelSeen, reqAfter, posts>>
    /\ UNCHANGED pureVars

\* convertToBlob resolves and the job goes on to await blob.arrayBuffer()
\* (lines 285-286). A canvas without pixels (numDays = 0 gives atlasH = 0)
\* cannot be encoded: its convertToBlob only rejects.
BlobResolves(j) ==
    /\ pc[j] = "convertToBlob"
    /\ AtlasH(numDays[j]) > 0
    /\ pc' = [pc EXCEPT ![j] = "arrayBuffer"]
    /\ UNCHANGED <<cancelled, inbox, day, numDays, gridLen, slices, sent,
                   cancelSeen, reqAfter, posts>>
    /\ UNCHANGED pureVars

\* what the job posts once the buffer is there (lines 288-299); nothing is
\* tested between the await and the postMessage
ResultMessages(n, c) == <<AtlasMsg(n)>>

\* arrayBuffer resolves: post the atlas; renderAtlas returns
BufferResolves(j) ==
    /\ pc[j] = "arrayBuffer"
    /\ sent' = [sent EXCEPT ![j] = @ \o ResultMessages(numDays[j], cancelled)]
    /\ pc' = [pc EXCEPT ![j] = "completed"]
    /\ UNCHANGED <<cancelled, inbox, day, numDays, gridLen, slices,
                   cancelSeen, reqAfter, posts>>
    /\ UNCHANGED pureVars

\* what the worker posts when an encoding await rejects: renderAtlas has no
\* try/catch and onmessage awaits it without one, so the rejection ends the
\* async handler as an unhandled rejection and nothing is posted
FailureMessages == <<>>

\* convertToBlob or arrayBuffer rejects
EncodeRejects(j) ==
    /\ pc[j] \in {"convertToBlob", "arrayBuffer"}
    /\ sent' = [sent EXCEPT ![j] = @ \o FailureMessages]
    /\ pc' = [pc EXCEPT ![j] = "rejected"]
    /\ UNCHANGED <<cancelled, inbox, day, numDays, gridLen, slices,
                   cancelSeen, reqAfter, posts>>
    /\ UNCHANGED pureVars

GeomIdle == gDays = 0 /\ gDay = 0 /\ gTiles = <<>>
BlurIdle == bIn = <<>> /\ bSrc = <<>> /\ bDst = <<>> /\ bPc = "idle" /\ bX = 0
            /\ bSum = 0 /\ bCount = 0
RenderIdle == rIn = <<>> /\ rPc = "idle" /\ rData = <<>> /\ rDst = <<>>
              /\ rMask = <<>> /\ rPass = 0 /\ rBlurred = <<>>

Init == WorkerInit /\ GeomIdle /\ BlurIdle /\ RenderIdle

Next ==
    \/ PostStart(MaxPosts, MaxJobs)
    \/ PostCancel(MaxPosts)
    \/ HandleStart
    \/ HandleCancel
    \/ \E j \in Jobs : TimerFires(j)
    \/ \E j \in Jobs : BlobResolves(j)
    \/ \E j \in Jobs : BufferResolves(j)
    \/ \E j \in Jobs : EncodeRejects(j)

Spec == Init /\ [][Next]_vars

\* The worker with one request and one job fewer (the liveness check walks
\* the whole state graph), and with the fairness of the event loop: timers
\* fire and the encoder's promises settle.
FairNext ==
    \/ PostStart(MaxPosts - 1, MaxJobs - 1)
    \/ PostCancel(MaxPosts - 1)
    \/ HandleStart
    \/ HandleCancel
    \/ \E j \in Jobs : TimerFires(j)
    \/ \E j \in Jobs : BlobResolves(j)
    \/ \E j \in Jobs : BufferResolves(j)
    \/ \E j \in Jobs : EncodeRejects(j)

FairSpec ==
    /\ Init
    /\ [][FairNext]_vars
    /\ \A j \in Jobs : WF_vars(TimerFires(j))
    /\ \A j \in Jobs : WF_vars(BlobResolves(j) \/ BufferResolves(j) \/ EncodeRejects(j))

\* ------------------------------------------------ atlas geometry (GeomSpec)
\* renderAtlas for a job of gDays days, seen through the tiles it places:
\* gTiles[d + 1] is the rectangle day d's frame is put at.
GeomInit ==
    /\ gDays \in 0 .. MaxAtlasDays
    /\ gDay = 0
    /\ gTiles = <<>>

\* lines 273-276 for day = gDay
PlaceTile ==
    /\ gDay < gDays
    /\ gTiles' = Append(gTiles, TileRect(gDay))
    /\ gDay' = gDay + 1
    /\ UNCHANGED gDays
    /\ UNCHANGED <<workerVars, blurVars, renderVars>>

GeomSpecInit == GeomInit /\ WorkerInit /\ BlurIdle /\ RenderIdle
GeomNext == PlaceTile
GeomSpec == GeomSpecInit /\ [][GeomNext]_vars

BlurSpecInit == BlurInit /\ WorkerInit /\ GeomIdle /\ RenderIdle
BlurSpec == BlurSpecInit /\ [][BlurNext]_vars

RenderSpecInit == RenderInit /\ WorkerInit /\ GeomIdle /\ BlurIdle
RenderSpec == RenderSpecInit /\ [][RenderNext]_vars

\* ------------------------------------------------------------ the claims

\* C1: once the worker has handled a cancel request while a job is running
\* (suspended at a yield or at an encoding await), that job never emits a
\* result ('atlas') message.
C1_NoResultAfterCancel ==
    \A j \in Jobs : cancelSeen[j] # NoCancel => ~HasResult(j)

C3_Expected(n) ==
    [i \in 1 .. n |-> [type |-> "progress", done |-> i, total |-> n]]
      \o <<[type |-> "atlas", numDays |-> n, cols |-> 16,
            rows |-> (n + 15) \div 16, frameW |-> 512, frameH |-> 256]>>

\* C3: a job of numDays >= 1 that sees no cancel request and whose encoding
\* succeeds eventually ends, and what it has sent is then exactly
\* progress(1..numDays) in order followed by one result message with the
\* atlas geometry; until then what it has sent is a prefix of that sequence.
C3_CompleteRun ==
    \A j \in Jobs :
        /\ [](pc[j] \in Live => <>(pc[j] \in Ended))
        /\ []((numDays[j] >= 1 /\ cancelSeen[j] = NoCancel /\ pc[j] # "rejected")
                => /\ sent[j] = SubSeq(C3_Expected(numDays[j]), 1, Len(sent[j]))
                   /\ pc[j] \in Ended => sent[j] = C3_Expected(numDays[j]))

C3_Witness ==
    \E j \in Jobs :
        /\ pc[j] = "completed"
        /\ numDays[j] = 7
        /\ cancelSeen[j] = NoCancel
        /\ Len(sent[j]) = 8

\* C4: every job suspended at a yield when the worker handles a cancel emits
\* no further progress message and no result message, whatever requests
\* follow.
C4_CancelStopsJob ==
    \A j \in Jobs :
        cancelSeen[j].at = "yield"
            => NumProgress(j) = cancelSeen[j].done /\ ~HasResult(j)

\* C5: a start request whose grid length differs from numDays * NUM_POINTS
\* is rejected up front: the job renders no day and emits neither a progress
\* nor a result message.
C5_BadGridRejected ==
    \A j \in Jobs :
        (pc[j] # "idle" /\ gridLen[j] # numDays[j] * 16471)
            => /\ slices[j] = <<>>
               /\ NumProgress(j) = 0
               /\ ~HasResult(j)

\* C6: when encoding rejects, the job ends without a result message and the
\* worker has reported the failure to the initiator by a message.
C6_EncodeFailureReported ==
    \A j \in Jobs :
        pc[j] = "rejected"
            => /\ ~HasResult(j)
               /\ \E i \in 1 .. Len(sent[j]) : sent[j][i].type \notin {"progress", "atlas"}

IsPowerOfTwo(h) == \E e \in 0 .. 30 : 2 ^ e = h

\* C7: for numDays >= 1 the atlas is 8192 wide, has rows = ceil(numDays/16)
\* and a height that is the least power of two >= rows * 256; day d is at
\* tile (d mod 16, d div 16), every tile placed lies inside the atlas and no
\* two tiles overlap.
C7_AtlasGeometry ==
    gDays >= 1 =>
        LET rows == AtlasRows(gDays)
            h == AtlasH(gDays)
        IN  /\ AtlasW = 8192
            /\ rows * 16 >= gDays /\ (rows - 1) * 16 < gDays
            /\ IsPowerOfTwo(h) /\ h >= rows * 256 /\ h < 2 * rows * 256
            /\ \A i \in 1 .. Len(gTiles) :
                 LET d == i - 1
                     t == gTiles[i]
                 IN  /\ t.x0 = (d % 16) * 512 /\ t.y0 = (d \div 16) * 256
                     /\ t.x1 = t.x0 + 512 /\ t.y1 = t.y0 + 256
                     /\ 0 <= t.x0 /\ t.x1 <= AtlasW
                     /\ 0 <= t.y0 /\ t.y1 <= h
            /\ \A i, k \in 1 .. Len(gTiles) :
                 i # k => \/ gTiles[i].x1 <= gTiles[k].x0
                          \/ gTiles[k].x1 <= gTiles[i].x0
                          \/ gTiles[i].y1 <= gTiles[k].y0
                          \/ gTiles[k].y1 <= gTiles[i].y0

C7_Witness ==
    /\ gDays = 17
    /\ Len(gTiles) = 17
    /\ AtlasRows(gDays) = 2
    /\ AtlasH(gDays) = 512
    /\ gTiles[17].x0 = 0 /\ gTiles[17].y0 = 256

\* the pixel (x, y) of the frame returned holds a missing nearest grid cell:
\* index rounded, longitude wrapped, latitude clamped
C8_OceanPixel(x, y) ==
    LET latIdx == (180 * y + rIn.h) \div (2 * rIn.h)
        lngIdx == (360 * x + rIn.w) \div (2 * rIn.w)
        la == IF latIdx > 90 THEN 90 ELSE IF latIdx < 0 THEN 0 ELSE latIdx
        lo == IF lngIdx >= 181 THEN lngIdx - 181 ELSE lngIdx
    IN  (la * 181 + lo) \in rIn.temps.ocean

\* C8: in the frame renderPixelData returns, for every grid, size and
\* blurRadius (0 or positive), every pixel whose nearest grid cell is
\* missing is exactly opaque white.
C8_OceanWhite ==
    rPc = "returned" =>
        \A x \in 0 .. rIn.w - 1, y \in 0 .. rIn.h - 1 :
            C8_OceanPixel(x, y) =>
                \A k \in 1 .. 4 : rData[(y * rIn.w + x) * 4 + k] = 255

\* a frame returned in which the blur had left a colour on an ocean pixel
C8_Witness ==
    /\ rPc = "returned"
    /\ rIn.opts.blurRadius > 0
    /\ \E x \in 0 .. rIn.w - 1, y \in 0 .. rIn.h - 1 :
          /\ C8_OceanPixel(x, y)
          /\ \E k \in 1 .. 3 : rBlurred[(y * rIn.w + x) * 4 + k] # 255
          /\ \A k \in 1 .. 4 : rData[(y * rIn.w + x) * 4 + k] = 255

\* positions max(0, i - r) .. min(n - 1, i + r) of the line under the pass
C9_Window(i) == Max(0, i - bIn.radius) .. Min(BlurN(bIn) - 1, i + bIn.radius)

\* the source value at position p of row bIn.line (pixel (p, line)) or of
\* column bIn.line (pixel (line, p)), channel bIn.ch
C9_Src(p) ==
    IF bIn.axis = "row" THEN bSrc[(bIn.line * bIn.w + p) * 4 + bIn.ch + 1]
    ELSE bSrc[(p * bIn.w + bIn.line) * 4 + bIn.ch + 1]
C9_Dst(p) ==
    IF bIn.axis = "row" THEN bDst[(bIn.line * bIn.w + p) * 4 + bIn.ch + 1]
    ELSE bDst[(p * bIn.w + bIn.line) * 4 + bIn.ch + 1]

RECURSIVE C9_Sum(_)
C9_Sum(S) == IF S = {} THEN 0
             ELSE LET p == CHOOSE q \in S : TRUE IN C9_Src(p) + C9_Sum(S \ {p})

\* C9: in a 1-D pass of boxBlur, for every w, h >= 1, radius >= 0 and RGB
\* channel, while position bX is still to be written the running sum and
\* count are the sum and the size of the window max(0, bX - r) ..
\* min(n - 1, bX + r) of the source line, the count is not 0, and every
\* position already written holds the average of its window rounded half up.
C9_BoxBlurWindow ==
    bPc \in {"slide", "done"} =>
        /\ bX < BlurN(bIn) =>
             /\ bSum = C9_Sum(C9_Window(bX))
             /\ bCount = Cardinality(C9_Window(bX))
             /\ bCount > 0
        /\ \A i \in 0 .. bX - 1 :
             LET sm == C9_Sum(C9_Window(i))
                 cnt == Cardinality(C9_Window(i))
                 v == C9_Dst(i)
             IN  /\ 2 * cnt * v <= 2 * sm + cnt
                 /\ 2 * sm + cnt < 2 * cnt * (v + 1)

C9_Witness ==
    /\ bPc = "done"
    /\ bIn.axis = "row" /\ bIn.w = 3 /\ bIn.radius = 1
    /\ C9_Src(0) = 0 /\ C9_Src(1) = 1 /\ C9_Src(2) = 255
    /\ C9_Dst(0) = 1 /\ C9_Dst(1) = 85 /\ C9_Dst(2) = 128

\* C10: a job that ends by cancellation has emitted k progress messages with
\* k mod 5 = 1 and 1 <= k <= numDays; and a job resumed while the flag is
\* clear renders every day up to its next yield (up to 5 days), also when a
\* cancel request is pending in the inbox.
C10_CancelOnlyAtYields ==
    /\ [](\A j \in Jobs :
            pc[j] = "cancelled"
                => /\ NumProgress(j) % 5 = 1
                   /\ 1 <= NumProgress(j) /\ NumProgress(j) <= numDays[j])
    /\ [][\A j \in Jobs :
            (/\ pc[j] = "yield"
             /\ <<pc[j], day[j]>>' # <<pc[j], day[j]>>
             /\ ~cancelled
             /\ \E i \in 1 .. Len(inbox) : inbox[i].type = "cancel")
                => NumProgress(j)' = Min(numDays[j], NumProgress(j) + 5)]_vars

C10_Witness ==
    \E j \in Jobs :
        /\ pc[j] = "cancelled"
        /\ NumProgress(j) = 6
        /\ numDays[j] = 7

=============================================================================
